---- MODULE Spec2Model ----
(***************************************************************************)
(* Dynamic-Filter: the client-side filter engine (engine/filterEngine.ts), *)
(* the condition list kept by the useFilters hook and the FilterRow        *)
(* handlers that edit it.                                                  *)
(*                                                                         *)
(* JavaScript values are tagged records, so that typeof, Array.isArray,    *)
(* the `in` operator and the coercions String(), Number() and Boolean()    *)
(* are computed the way the runtime computes them.  A string is the        *)
(* sequence of its characters.  A call either returns a value or throws:   *)
(* a completion is [threw, val].                                           *)
(***************************************************************************)
EXTENDS Integers, Sequences, FiniteSets, TLC

VARIABLES
    data,              \* the dataset handed to applyFilters (App: employees)
    conditions,        \* the condition list (useFilters: conditions)
    fieldDefinitions,  \* the schema handed to applyFilters
    now,               \* the system clock read by dayjs(), in ticks
    filteredData,      \* completion of the last applyFilters call
    nextId,            \* useFilters.ts module-level counter
    storage,           \* localStorage["dynamic-filter-conditions"]
    pending            \* setConditions calls React has queued for the next render

vars == <<data, conditions, fieldDefinitions, now, filteredData, nextId, storage, pending>>

(* ------------------------- JavaScript values --------------------------- *)

Undefined == [t |-> "undefined"]
Null == [t |-> "null"]
NaN == [t |-> "NaN"]
Fn == [t |-> "function"]
Str(s) == [t |-> "string", s |-> s]
Num(n) == [t |-> "number", n |-> n]
Bool(b) == [t |-> "boolean", b |-> b]
Arr(l) == [t |-> "array", l |-> l]
Obj(m) == [t |-> "object", m |-> m]
EmptyObj == Obj([k \in {} |-> Undefined])

Ret(v) == [threw |-> FALSE, val |-> v]
Throw == [threw |-> TRUE, val |-> FALSE]
ThrowSeq == [threw |-> TRUE, val |-> <<>>]

IsNullish(v) == v.t \in {"undefined", "null"}
IsArray(v) == v.t = "array"
TypeofObject(v) == v.t \in {"object", "array", "null"}

\* ToBoolean: the falsy values are undefined, null, "", 0, NaN and false.
Truthy(v) ==
    CASE v.t \in {"undefined", "null", "NaN"} -> FALSE
      [] v.t = "string" -> Len(v.s) > 0
      [] v.t = "number" -> v.n # 0
      [] v.t = "boolean" -> v.b
      [] OTHER -> TRUE

\* === on two values: primitives by value, NaN never, objects by reference
\* (a record's value and a condition's value are never the same reference).
StrictEq(a, b) ==
    /\ a.t = b.t
    /\ a.t \in {"undefined", "null", "string", "number", "boolean"}
    /\ a = b

\* Array.prototype.includes compares by SameValueZero: as ===, and NaN is NaN.
SameValueZero(a, b) == StrictEq(a, b) \/ (a.t = "NaN" /\ b.t = "NaN")

\* Names every object inherits from Object.prototype.
ObjectPrototypeKeys ==
    {"constructor", "toString", "valueOf", "hasOwnProperty", "isPrototypeOf",
     "propertyIsEnumerable", "toLocaleString", "__proto__"}

\* key in obj, for a value that passed `acc && typeof acc === "object"`.
HasKey(v, key) ==
    CASE v.t = "object" -> key \in DOMAIN v.m \/ key \in ObjectPrototypeKeys
      [] v.t = "array" -> key \in ObjectPrototypeKeys \/ key = "length"
      [] OTHER -> FALSE

\* v[key] where HasKey(v, key).
GetKey(v, key) ==
    IF v.t = "object" /\ key \in DOMAIN v.m THEN v.m[key]
    ELSE IF v.t = "array" /\ key = "length" THEN Num(Len(v.l))
    ELSE Fn

\* v.key for one of the keys start, end, min, max: a completion, since a
\* property read of undefined or null throws a TypeError.
GetProp(v, key) ==
    IF IsNullish(v) THEN Throw
    ELSE IF v.t = "object" /\ key \in DOMAIN v.m THEN Ret(v.m[key])
    ELSE Ret(Undefined)

(* ------------------------------- strings ------------------------------- *)

\* The letters of the model that String.prototype.toLowerCase changes; every
\* other character, the dotless i ("i_dotless", U+0131) included, stays.
LowerOf == [A |-> "a", B |-> "b", N |-> "n", O |-> "o", I |-> "i"]

\* A toLowerCase that leaves every character as it is.
toLowerCase_asIs(s) == s

toLowerCase(s) ==
    [i \in 1..Len(s) |-> IF s[i] \in DOMAIN LowerOf THEN LowerOf[s[i]] ELSE s[i]]

startsWith(v, f) == Len(f) <= Len(v) /\ SubSeq(v, 1, Len(f)) = f
endsWith(v, f) == Len(f) <= Len(v) /\ SubSeq(v, Len(v) - Len(f) + 1, Len(v)) = f
includes(v, f) ==
    \E i \in 0..(Len(v) - Len(f)) : SubSeq(v, i + 1, i + Len(f)) = f

DigitChars == <<"0", "1", "2", "3", "4", "5", "6", "7", "8", "9">>
DigitOf(ch) == (CHOOSE i \in 1..10 : DigitChars[i] = ch) - 1
IsDigit(ch) == \E i \in 1..10 : DigitChars[i] = ch

RECURSIVE NatToStr(_)
NatToStr(n) ==
    IF n < 10 THEN <<DigitChars[n + 1]>>
    ELSE NatToStr(n \div 10) \o <<DigitChars[(n % 10) + 1]>>

RECURSIVE DigitsToNat(_)
DigitsToNat(s) ==
    IF Len(s) = 0 THEN 0
    ELSE 10 * DigitsToNat(SubSeq(s, 1, Len(s) - 1)) + DigitOf(s[Len(s)])

AllDigits(s) == Len(s) > 0 /\ \A i \in 1..Len(s) : IsDigit(s[i])

\* Number(s) for a string of the modelled alphabet (letters, digits, "-",
\* "(" and date texts): "" is 0, a decimal integer is its value, else NaN.
StringToNumber(s) ==
    IF Len(s) = 0 THEN Num(0)
    ELSE IF AllDigits(s) THEN Num(DigitsToNat(s))
    ELSE IF s[1] = "-" /\ AllDigits(Tail(s)) THEN Num(0 - DigitsToNat(Tail(s)))
    ELSE NaN

S_true == <<"t", "r", "u", "e">>
S_false == <<"f", "a", "l", "s", "e">>
S_undefined == <<"u", "n", "d", "e", "f", "i", "n", "e", "d">>
S_null == <<"n", "u", "l", "l">>
S_NaN == <<"N", "a", "N">>
S_object == <<"[", "o", "b", "j", "e", "c", "t", " ", "O", "b", "j", "e", "c", "t", "]">>
S_function == <<"f", "u", "n", "c", "t", "i", "o", "n">>

RECURSIVE ToStringJS(_)
RECURSIVE JoinComma(_, _)
\* Array.prototype.join(","): null and undefined elements give "".
JoinComma(l, i) ==
    IF i > Len(l) THEN <<>>
    ELSE (IF IsNullish(l[i]) THEN <<>> ELSE ToStringJS(l[i]))
         \o (IF i < Len(l) THEN <<",">> ELSE <<>>)
         \o JoinComma(l, i + 1)

\* String(v)
ToStringJS(v) ==
    CASE v.t = "string" -> v.s
      [] v.t = "number" -> IF v.n < 0 THEN <<"-">> \o NatToStr(0 - v.n) ELSE NatToStr(v.n)
      [] v.t = "NaN" -> S_NaN
      [] v.t = "boolean" -> IF v.b THEN S_true ELSE S_false
      [] v.t = "undefined" -> S_undefined
      [] v.t = "null" -> S_null
      [] v.t = "array" -> JoinComma(v.l, 1)
      [] v.t = "object" -> S_object
      [] OTHER -> S_function

\* Number(v): a number value or NaN.
ToNumber(v) ==
    CASE v.t = "number" -> v
      [] v.t = "NaN" -> NaN
      [] v.t = "undefined" -> NaN
      [] v.t = "null" -> Num(0)
      [] v.t = "boolean" -> IF v.b THEN Num(1) ELSE Num(0)
      [] v.t = "string" -> StringToNumber(v.s)
      [] v.t = "array" -> StringToNumber(JoinComma(v.l, 1))
      [] OTHER -> NaN

\* rawValue ?? ""
OrEmpty(v) == IF IsNullish(v) THEN Str(<<>>) ELSE v

(* --------------------------- value access ------------------------------ *)

\* path.split("."), on the paths the model uses.
split(path) ==
    CASE path = "address.city" -> <<"address", "city">>
      [] path = "address.zip" -> <<"address", "zip">>
      [] OTHER -> <<path>>

RECURSIVE reduceNested(_, _, _)
reduceNested(acc, keys, i) ==
    IF i > Len(keys) THEN acc
    ELSE reduceNested(
            IF Truthy(acc) /\ TypeofObject(acc) /\ HasKey(acc, keys[i])
            THEN GetKey(acc, keys[i]) ELSE Undefined,
            keys, i + 1)

getNestedValue(obj, path) == reduceNested(obj, split(path), 1)

(* -------------------------------- dates -------------------------------- *)

\* dayjs compares instants (isAfter(x)) and calendar days (isSame(x, "day")):
\* an instant is a tick, a day is TicksPerDay consecutive ticks.
TicksPerDay == 2

\* The date texts of the model and the instant dayjs parses each to.
DateTick ==
    [T20 |-> 20, T21 |-> 21, T140 |-> 140, T141 |-> 141, T186 |-> 186,
     T187 |-> 187, T188 |-> 188, T196 |-> 196, T198 |-> 198, T199 |-> 199]

InvalidDate == [valid |-> FALSE, tick |-> 0]

\* dayjs(s) for a string: a date text parses, every other string of the
\* modelled alphabet without digits (and "") is an Invalid Date.
dayjs(s) ==
    IF Len(s) = 1 /\ s[1] \in DOMAIN DateTick
    THEN [valid |-> TRUE, tick |-> DateTick[s[1]]]
    ELSE InvalidDate

\* range.start ? dayjs(range.start) : null   (null is [set |-> FALSE])
BoundOf(v) ==
    IF Truthy(v) THEN [set |-> TRUE, d |-> IF v.t = "string" THEN dayjs(v.s) ELSE InvalidDate]
    ELSE [set |-> FALSE, d |-> InvalidDate]

DayOf(tick) == tick \div TicksPerDay
isAfter(a, b) == a.valid /\ b.valid /\ a.tick > b.tick
isBefore(a, b) == a.valid /\ b.valid /\ a.tick < b.tick
\* Comparisons that look at the instant where dayjs looks at the day.
isSameDay_sameInstant(a, b) == a.valid /\ b.valid /\ a.tick = b.tick
isBeforeDay_beforeInstant(a, b) == a.valid /\ b.valid /\ a.tick < b.tick

isSameDay(a, b) == a.valid /\ b.valid /\ DayOf(a.tick) = DayOf(b.tick)
isAfterDay(a, b) == a.valid /\ b.valid /\ DayOf(b.tick) < DayOf(a.tick)
isBeforeDay(a, b) == a.valid /\ b.valid /\ DayOf(a.tick) < DayOf(b.tick)
\* A subtract that goes back a week whatever n is.
nowMinusDays_week(n) == [valid |-> TRUE, tick |-> now - 7 * TicksPerDay]

\* dayjs().subtract(n, "day")
nowMinusDays(n) == [valid |-> TRUE, tick |-> now - n * TicksPerDay]

(* ------------------------------ matchers ------------------------------- *)

RegExpCompiles(pattern) == \A i \in 1..Len(pattern) : pattern[i] # "("

\* new RegExp(filterValue, "i").test(value): without "(" a pattern of the
\* modelled alphabet is a literal, searched ignoring case.
RegExpTest(pattern, value) == includes(toLowerCase(value), toLowerCase(pattern))

matchText(value, filterValue, operator) ==
    IF filterValue.t # "string" THEN Throw    \* filterValue.toLowerCase is not a function
    ELSE LET v == toLowerCase(value)
             f == toLowerCase(filterValue.s)
         IN  CASE operator = "equals" -> Ret(v = f)
               [] operator = "contains" -> Ret(includes(v, f))
               [] operator = "startsWith" -> Ret(startsWith(v, f))
               [] operator = "endsWith" -> Ret(endsWith(v, f))
               [] operator = "doesNotContain" -> Ret(~includes(v, f))
               [] operator = "regex" ->
                    Ret(RegExpCompiles(filterValue.s) /\ RegExpTest(filterValue.s, value))
               [] OTHER -> Ret(FALSE)

\* value >= (bound === "" ? -Infinity : Number(bound))
AtLeast(value, bound) ==
    StrictEq(bound, Str(<<>>))
        \/ LET b == ToNumber(bound) IN b.t = "number" /\ value.n >= b.n
AtMost(value, bound) ==
    StrictEq(bound, Str(<<>>))
        \/ LET b == ToNumber(bound) IN b.t = "number" /\ value.n <= b.n

InRange(value, range) ==
    LET lo == GetProp(range, "min")
        hi == GetProp(range, "max")
    IN  IF lo.threw \/ hi.threw THEN Throw
        ELSE Ret(AtLeast(value, lo.val) /\ AtMost(value, hi.val))

matchNumber(value, filterValue, operator) ==
    IF value.t = "NaN" THEN Ret(FALSE)
    ELSE IF operator = "numberBetween" THEN InRange(value, filterValue)
    ELSE LET fv == ToNumber(filterValue)
         IN  IF fv.t = "NaN" THEN Ret(FALSE)
             ELSE CASE operator = "eq" -> Ret(value.n = fv.n)
                    [] operator = "neq" -> Ret(value.n # fv.n)
                    [] operator = "gt" -> Ret(value.n > fv.n)
                    [] operator = "lt" -> Ret(value.n < fv.n)
                    [] operator = "gte" -> Ret(value.n >= fv.n)
                    [] operator = "lte" -> Ret(value.n <= fv.n)
                    [] OTHER -> Ret(FALSE)

\* matchDate with "after" measured from the clock instead of the bound.
matchDate_afterLastWeek(value, filterValue, operator) ==
    LET date == dayjs(value)
        s == GetProp(filterValue, "start")
        e == GetProp(filterValue, "end")
    IN  IF ~date.valid THEN Ret(FALSE)
        ELSE CASE operator = "between" ->
                    IF s.threw THEN Throw
                    ELSE LET start == BoundOf(s.val)
                             end == BoundOf(e.val)
                             fromStart == isAfter(date, start.d) \/ isSameDay(date, start.d)
                             toEnd == isBefore(date, end.d) \/ isSameDay(date, end.d)
                         IN  IF start.set /\ end.set THEN Ret(fromStart /\ toEnd)
                             ELSE IF start.set THEN Ret(fromStart)
                             ELSE IF end.set THEN Ret(toEnd)
                             ELSE Ret(TRUE)
               [] operator = "before" ->
                    IF e.threw THEN Throw
                    ELSE LET end == IF Truthy(e.val) THEN BoundOf(e.val) ELSE BoundOf(s.val)
                         IN  Ret(IF end.set THEN isBeforeDay(date, end.d) ELSE TRUE)
               [] operator = "after" ->
                    IF s.threw THEN Throw
                    ELSE Ret(isAfter(date, nowMinusDays(7)))
               [] operator = "last7days" -> Ret(isAfter(date, nowMinusDays(7)))
               [] operator = "last30days" -> Ret(isAfter(date, nowMinusDays(30)))
               [] operator = "last90days" -> Ret(isAfter(date, nowMinusDays(90)))
               [] OTHER -> Ret(FALSE)

matchDate(value, filterValue, operator) ==
    LET date == dayjs(value)
        s == GetProp(filterValue, "start")
        e == GetProp(filterValue, "end")
    IN  IF ~date.valid THEN Ret(FALSE)
        ELSE CASE operator = "between" ->
                    IF s.threw THEN Throw
                    ELSE LET start == BoundOf(s.val)
                             end == BoundOf(e.val)
                             fromStart == isAfter(date, start.d) \/ isSameDay(date, start.d)
                             toEnd == isBefore(date, end.d) \/ isSameDay(date, end.d)
                         IN  IF start.set /\ end.set THEN Ret(fromStart /\ toEnd)
                             ELSE IF start.set THEN Ret(fromStart)
                             ELSE IF end.set THEN Ret(toEnd)
                             ELSE Ret(TRUE)
               [] operator = "before" ->
                    IF e.threw THEN Throw
                    ELSE LET end == IF Truthy(e.val) THEN BoundOf(e.val) ELSE BoundOf(s.val)
                         IN  Ret(IF end.set THEN isBeforeDay(date, end.d) ELSE TRUE)
               [] operator = "after" ->
                    IF s.threw THEN Throw
                    ELSE LET start == IF Truthy(s.val) THEN BoundOf(s.val) ELSE BoundOf(e.val)
                         IN  Ret(IF start.set THEN isAfterDay(date, start.d) ELSE TRUE)
               [] operator = "last7days" -> Ret(isAfter(date, nowMinusDays(7)))
               [] operator = "last30days" -> Ret(isAfter(date, nowMinusDays(30)))
               [] operator = "last90days" -> Ret(isAfter(date, nowMinusDays(90)))
               [] OTHER -> Ret(FALSE)

\* matchAmountRange with an exclusive upper bound.
matchAmountRange_exclusiveMax(value, range) ==
    IF value.t = "NaN" THEN Ret(FALSE)
    ELSE LET r == InRange(value, range)
             hi == GetProp(range, "max")
         IN  IF r.threw THEN Throw
             ELSE Ret(r.val /\ ~StrictEq(hi.val, value))

matchAmountRange(value, range) ==
    IF value.t = "NaN" THEN Ret(FALSE) ELSE InRange(value, range)

matchSingleSelect(value, filterValue, operator) ==
    CASE operator = "is" -> StrictEq(Str(value), filterValue)
      [] operator = "isNot" -> ~StrictEq(Str(value), filterValue)
      [] OTHER -> FALSE

\* values.includes(fv)
arrayIncludes(values, fv) == \E i \in 1..Len(values.l) : SameValueZero(values.l[i], fv)

\* matchMultiSelect whose "all" asks for one selected value only.
matchMultiSelect_allAsIn(values, filterValues, operator) ==
    IF ~IsArray(values) THEN Ret(FALSE)
    ELSE IF IsNullish(filterValues) THEN Throw
    ELSE IF \/ (filterValues.t = "array" /\ Len(filterValues.l) = 0)
            \/ (filterValues.t = "string" /\ Len(filterValues.s) = 0) THEN Ret(TRUE)
    ELSE IF operator \in {"in", "notIn", "all"} /\ filterValues.t # "array" THEN Throw
    ELSE CASE operator \in {"in", "all"} ->
                Ret(\E i \in 1..Len(filterValues.l) : arrayIncludes(values, filterValues.l[i]))
           [] operator = "notIn" ->
                Ret(~\E i \in 1..Len(filterValues.l) : arrayIncludes(values, filterValues.l[i]))
           [] OTHER -> Ret(FALSE)

matchMultiSelect(values, filterValues, operator) ==
    IF ~IsArray(values) THEN Ret(FALSE)
    ELSE IF IsNullish(filterValues) THEN Throw      \* filterValues.length
    ELSE IF \/ (filterValues.t = "array" /\ Len(filterValues.l) = 0)
            \/ (filterValues.t = "string" /\ Len(filterValues.s) = 0) THEN Ret(TRUE)
    ELSE IF operator \in {"in", "notIn", "all"} /\ filterValues.t # "array"
         THEN Throw                                  \* filterValues.some is not a function
    ELSE CASE operator = "in" ->
                Ret(\E i \in 1..Len(filterValues.l) : arrayIncludes(values, filterValues.l[i]))
           [] operator = "notIn" ->
                Ret(~\E i \in 1..Len(filterValues.l) : arrayIncludes(values, filterValues.l[i]))
           [] operator = "all" ->
                Ret(\A i \in 1..Len(filterValues.l) : arrayIncludes(values, filterValues.l[i]))
           [] OTHER -> Ret(FALSE)

matchBoolean(value, filterValue) == StrictEq(Bool(Truthy(value)), filterValue)

(* ------------------------------ validation ---------------------------- *)

VALUELESS_OPERATORS == {"last7days", "last30days", "last90days"}

EmptyString == Str(<<>>)

\* isValidFilter with the operator test of its first line left out.
isValidFilter_fieldKeyOnly(condition) ==
    IF condition.fieldKey = "" THEN FALSE
    ELSE IF condition.operator \in VALUELESS_OPERATORS THEN TRUE
    ELSE LET v == condition.value
         IN  IF IsNullish(v) THEN FALSE
             ELSE IF v.t = "string" /\ Len(v.s) = 0 THEN FALSE
             ELSE IF IsArray(v) /\ Len(v.l) = 0 THEN FALSE
             ELSE IF TypeofObject(v) /\ HasKey(v, "start") /\ HasKey(v, "end")
                  THEN ~StrictEq(GetKey(v, "start"), EmptyString)
                           \/ ~StrictEq(GetKey(v, "end"), EmptyString)
             ELSE IF TypeofObject(v) /\ HasKey(v, "min") /\ HasKey(v, "max")
                  THEN ~StrictEq(GetKey(v, "min"), EmptyString)
                           \/ ~StrictEq(GetKey(v, "max"), EmptyString)
             ELSE TRUE

\* isValidFilter with && for || in the two range tests.
isValidFilter_rangeNeedsBoth(condition) ==
    IF condition.fieldKey = "" \/ condition.operator = "" THEN FALSE
    ELSE IF condition.operator \in VALUELESS_OPERATORS THEN TRUE
    ELSE LET v == condition.value
         IN  IF IsNullish(v) THEN FALSE
             ELSE IF v.t = "string" /\ Len(v.s) = 0 THEN FALSE
             ELSE IF IsArray(v) /\ Len(v.l) = 0 THEN FALSE
             ELSE IF TypeofObject(v) /\ HasKey(v, "start") /\ HasKey(v, "end")
                  THEN ~StrictEq(GetKey(v, "start"), EmptyString)
                           /\ ~StrictEq(GetKey(v, "end"), EmptyString)
             ELSE IF TypeofObject(v) /\ HasKey(v, "min") /\ HasKey(v, "max")
                  THEN ~StrictEq(GetKey(v, "min"), EmptyString)
                           /\ ~StrictEq(GetKey(v, "max"), EmptyString)
             ELSE TRUE

isValidFilter(condition) ==
    IF condition.fieldKey = "" \/ condition.operator = "" THEN FALSE
    ELSE IF condition.operator \in VALUELESS_OPERATORS THEN TRUE
    ELSE LET v == condition.value
         IN  IF IsNullish(v) THEN FALSE
             ELSE IF v.t = "string" /\ Len(v.s) = 0 THEN FALSE
             ELSE IF IsArray(v) /\ Len(v.l) = 0 THEN FALSE
             ELSE IF TypeofObject(v) /\ HasKey(v, "start") /\ HasKey(v, "end")
                  THEN ~StrictEq(GetKey(v, "start"), EmptyString)
                           \/ ~StrictEq(GetKey(v, "end"), EmptyString)
             ELSE IF TypeofObject(v) /\ HasKey(v, "min") /\ HasKey(v, "max")
                  THEN ~StrictEq(GetKey(v, "min"), EmptyString)
                           \/ ~StrictEq(GetKey(v, "max"), EmptyString)
             ELSE TRUE

(* ------------------------- condition dispatcher ------------------------ *)

matchCondition(record, condition, fieldDef) ==
    LET rawValue == getNestedValue(record, condition.fieldKey)
    IN  CASE fieldDef.type = "text" ->
                matchText(ToStringJS(OrEmpty(rawValue)), condition.value, condition.operator)
          [] fieldDef.type = "number" ->
                matchNumber(ToNumber(rawValue), condition.value, condition.operator)
          [] fieldDef.type = "date" ->
                matchDate(ToStringJS(OrEmpty(rawValue)), condition.value, condition.operator)
          [] fieldDef.type = "amount" ->
                matchAmountRange(ToNumber(rawValue), condition.value)
          [] fieldDef.type = "singleSelect" ->
                Ret(matchSingleSelect(ToStringJS(OrEmpty(rawValue)), condition.value,
                                      condition.operator))
          [] fieldDef.type = "multiSelect" ->
                matchMultiSelect(IF IsArray(rawValue) THEN rawValue ELSE Arr(<<>>),
                                 condition.value, condition.operator)
          [] fieldDef.type = "boolean" ->
                Ret(matchBoolean(rawValue, condition.value))
          [] OTHER -> Ret(TRUE)

(* ------------------------------ filter pass ---------------------------- *)

\* The pass without the validator: every condition is evaluated.
validConditionsOf_unfiltered(conds) == conds

\* conditions.filter(isValidFilter)
validConditionsOf(conds) == SelectSeq(conds, isValidFilter)

\* new Map(fieldDefinitions.map(fd => [fd.key, fd])): the last definition of
\* a key is the one the map keeps.
fieldMapHas(fds, key) == \E i \in 1..Len(fds) : fds[i].key = key
fieldMapGet(fds, key) ==
    fds[CHOOSE i \in 1..Len(fds) :
            /\ fds[i].key = key
            /\ \A j \in 1..Len(fds) : fds[j].key = key => j <= i]

\* The reduce into groupedByField starts from {}: for a key inherited from
\* Object.prototype acc[key] is truthy and has no push, so the call throws.
groupingThrows(valid) == \E i \in 1..Len(valid) : valid[i].fieldKey \in ObjectPrototypeKeys

\* Object.entries(groupedByField): the keys in order of first insertion (the
\* model has no key that is a canonical array index).
RECURSIVE groupKeys(_, _, _)
groupKeys(valid, i, seen) ==
    IF i > Len(valid) THEN <<>>
    ELSE IF valid[i].fieldKey \in seen THEN groupKeys(valid, i + 1, seen)
    ELSE <<valid[i].fieldKey>> \o groupKeys(valid, i + 1, seen \cup {valid[i].fieldKey})

groupedByField(valid, key) == SelectSeq(valid, LAMBDA c : c.fieldKey = key)

\* fieldConditions.some(condition => matchCondition(record, condition, fieldDef))
RECURSIVE someMatch(_, _, _, _)
someMatch(record, fieldConditions, fieldDef, i) ==
    IF i > Len(fieldConditions) THEN Ret(FALSE)
    ELSE LET m == matchCondition(record, fieldConditions[i], fieldDef)
         IN  IF m.threw THEN Throw
             ELSE IF m.val THEN Ret(TRUE)
             ELSE someMatch(record, fieldConditions, fieldDef, i + 1)

\* Object.entries(groupedByField).every(([fieldKey, fieldConditions]) => ...)
RECURSIVE everyGroup(_, _, _, _, _)
everyGroup(record, valid, keys, fds, i) ==
    IF i > Len(keys) THEN Ret(TRUE)
    ELSE LET g == IF ~fieldMapHas(fds, keys[i]) THEN Ret(TRUE)
                  ELSE someMatch(record, groupedByField(valid, keys[i]),
                                 fieldMapGet(fds, keys[i]), 1)
         IN  IF g.threw THEN Throw
             ELSE IF ~g.val THEN Ret(FALSE)
             ELSE everyGroup(record, valid, keys, fds, i + 1)

\* data.filter with the kept records collected back to front.
RECURSIVE filterRecords_reversed(_, _, _, _, _)
filterRecords_reversed(d, valid, keys, fds, i) ==
    IF i > Len(d) THEN Ret(<<>>)
    ELSE LET keep == everyGroup(d[i], valid, keys, fds, 1)
             rest == filterRecords_reversed(d, valid, keys, fds, i + 1)
         IN  IF keep.threw \/ rest.threw THEN ThrowSeq
             ELSE Ret(rest.val \o (IF keep.val THEN <<d[i]>> ELSE <<>>))

\* data.filter(record => ...)
RECURSIVE filterRecords(_, _, _, _, _)
filterRecords(d, valid, keys, fds, i) ==
    IF i > Len(d) THEN Ret(<<>>)
    ELSE LET keep == everyGroup(d[i], valid, keys, fds, 1)
             rest == filterRecords(d, valid, keys, fds, i + 1)
         IN  IF keep.threw \/ rest.threw THEN ThrowSeq
             ELSE Ret((IF keep.val THEN <<d[i]>> ELSE <<>>) \o rest.val)

\* applyFilters with the pass over the data starting one record late.
applyFilters_fromSecond(d, conds, fds) ==
    LET validConditions == validConditionsOf(conds)
    IN  IF Len(validConditions) = 0 THEN Ret(d)
        ELSE IF groupingThrows(validConditions) THEN ThrowSeq
        ELSE filterRecords(d, validConditions, groupKeys(validConditions, 1, {}), fds, 2)

applyFilters(d, conds, fds) ==
    LET validConditions == validConditionsOf(conds)
    IN  IF Len(validConditions) = 0 THEN Ret(d)
        ELSE IF groupingThrows(validConditions) THEN ThrowSeq
        ELSE filterRecords(d, validConditions, groupKeys(validConditions, 1, {}), fds, 1)

(* ------------------------- default value factory ----------------------- *)

EmptyDateRange == Obj([start |-> EmptyString, end |-> EmptyString])
EmptyNumberRange == Obj([min |-> EmptyString, max |-> EmptyString])

\* getDefaultValue with "" for 0 as the Number default.
getDefaultValue_numberEmpty(type) ==
    CASE type = "text" -> EmptyString
      [] type = "number" -> EmptyString
      [] type = "date" -> EmptyDateRange
      [] type = "amount" -> EmptyNumberRange
      [] type = "singleSelect" -> EmptyString
      [] type = "multiSelect" -> Arr(<<>>)
      [] type = "boolean" -> Bool(TRUE)

getDefaultValue(type) ==
    CASE type = "text" -> EmptyString
      [] type = "number" -> Num(0)
      [] type = "date" -> EmptyDateRange
      [] type = "amount" -> EmptyNumberRange
      [] type = "singleSelect" -> EmptyString
      [] type = "multiSelect" -> Arr(<<>>)
      [] type = "boolean" -> Bool(TRUE)

\* getDefaultValueForOperator that gives numberBetween its range on Number
\* fields only.
getDefaultValueForOperator_byType(type, operator) ==
    IF operator \in VALUELESS_OPERATORS THEN EmptyDateRange
    ELSE IF operator = "numberBetween" /\ type = "number" THEN EmptyNumberRange
    ELSE getDefaultValue(type)

\* getDefaultValueForOperator that looks at the type alone.
getDefaultValueForOperator_typeOnly(type, operator) == getDefaultValue(type)

getDefaultValueForOperator(type, operator) ==
    IF operator \in VALUELESS_OPERATORS THEN EmptyDateRange
    ELSE IF operator = "numberBetween" THEN EmptyNumberRange
    ELSE getDefaultValue(type)

OPERATORS_BY_TYPE ==
    [text |-> <<"equals", "contains", "startsWith", "endsWith", "doesNotContain", "regex">>,
     number |-> <<"eq", "neq", "gt", "lt", "gte", "lte", "numberBetween">>,
     date |-> <<"between", "before", "after", "last7days", "last30days", "last90days">>,
     amount |-> <<"between">>,
     singleSelect |-> <<"is", "isNot">>,
     multiSelect |-> <<"in", "notIn", "all">>,
     boolean |-> <<"is">>]

(* ------------------ the filter pass on condition lists ----------------- *)
(* Spec: a dataset and a schema are chosen, conditions are appended one by *)
(* one, and the dataset is filtered again after every change (App.tsx).    *)

MaxConditions == 3

Cond(fieldKey, operator, value) ==
    [id |-> <<0, 0>>, fieldKey |-> fieldKey, operator |-> operator, value |-> value]

Field(key, type) == [key |-> key, type |-> type]

sA == Str(<<"a">>)
sB == Str(<<"b">>)
sAb == Str(<<"A", "b">>)
sParen == Str(<<"(">>)

EngineSchemas ==
    { <<Field("name", "text"), Field("dept", "singleSelect"), Field("active", "boolean")>>,
      <<Field("name", "text")>> }

rAb == Obj([name |-> sAb, dept |-> sA, active |-> Bool(TRUE)])
rB == Obj([name |-> sB, dept |-> sB, active |-> Bool(FALSE)])
rA == Obj([name |-> sA, dept |-> sB, active |-> Bool(TRUE)])

EngineData == {<<>>, <<rAb, rB>>, <<rB, rA>>, <<rA, rAb>>, <<rB, rB>>}

EngineConditions ==
    { Cond("name", "contains", sA),
      Cond("name", "equals", sB),
      Cond("name", "equals", Num(5)),        \* a number on a Text field
      Cond("dept", "is", sA),
      Cond("active", "is", Bool(TRUE)),
      Cond("ghost", "equals", sA),           \* no FieldDefinition
      Cond("constructor", "equals", sA),     \* a name of Object.prototype
      Cond("", "equals", sA),                \* no field yet
      Cond("name", "", sA),                  \* no operator yet
      Cond("name", "contains", EmptyString), \* no value yet
      Cond("name", "regex", sParen)          \* a pattern that does not compile
    }

Now0 == 100 * TicksPerDay

Init ==
    /\ data \in EngineData
    /\ fieldDefinitions \in EngineSchemas
    /\ conditions = <<>>
    /\ now = Now0
    /\ filteredData = applyFilters(data, conditions, fieldDefinitions)
    /\ nextId = 1
    /\ storage = <<>>
    /\ pending = <<>>

\* The condition list gains a condition and the memoised filter pass reruns.
AppendCondition(c) ==
    /\ Len(conditions) < MaxConditions
    /\ conditions' = Append(conditions, c)
    /\ filteredData' = applyFilters(data, conditions', fieldDefinitions)
    /\ UNCHANGED <<data, fieldDefinitions, now, nextId, storage, pending>>

Next == \E c \in EngineConditions : AppendCondition(c)

Spec == Init /\ [][Next]_vars

InsertAt(seq, i, x) == SubSeq(seq, 1, i - 1) \o <<x>> \o SubSeq(seq, i, Len(seq))
Range(seq) == {seq[i] : i \in 1..Len(seq)}

(* ------------------------ properties of the pass ----------------------- *)

\* The pass with condition c inserted at position i of the list.
resultWith(c, i) == applyFilters(data, InsertAt(conditions, i, c), fieldDefinitions)
positions == 1..(Len(conditions) + 1)
\* The records a call hands back: none when it throws.
kept(completion) == IF completion.threw THEN {} ELSE Range(completion.val)

hasValidCondition == \E i \in 1..Len(conditions) : isValidFilter(conditions[i])

\* Condition c matches the record: the matcher of its field's type returns true.
matches(record, c) ==
    LET m == matchCondition(record, c, fieldMapGet(fieldDefinitions, c.fieldKey))
    IN  ~m.threw /\ m.val

\* AND across the field groups that have a FieldDefinition, OR within a group.
keptByGroups(record) ==
    \A i \in 1..Len(conditions) :
        (isValidFilter(conditions[i]) /\ fieldMapHas(fieldDefinitions, conditions[i].fieldKey))
            => \E j \in 1..Len(conditions) :
                    /\ isValidFilter(conditions[j])
                    /\ conditions[j].fieldKey = conditions[i].fieldKey
                    /\ matches(record, conditions[j])

\* C1: for every dataset, condition list and schema, applyFilters keeps a
\* record iff every group of valid conditions sharing a fieldKey that has a
\* FieldDefinition holds a condition matching the record, whatever the
\* position of the conditions in the list.
C1_AndAcrossOrWithin ==
    /\ ~filteredData.threw
    /\ filteredData.val = SelectSeq(data, keptByGroups)

\* The same statement on the calls that return.
C1_WhenTheCallReturns ==
    ~filteredData.threw => filteredData.val = SelectSeq(data, keptByGroups)

\* C2: for every dataset, condition list (value shapes that do not fit the
\* field type included) and schema, applyFilters returns a list of records
\* and raises no error.
C2_NeverRaises == ~filteredData.threw

\* C3: when the list is empty or holds no condition the validator accepts,
\* applyFilters returns the input dataset unchanged.
C3_IdentityWithoutValidCondition ==
    ~hasValidCondition => filteredData = Ret(data)

C3_Witness ==
    /\ Len(conditions) >= 2
    /\ ~hasValidCondition
    /\ Len(data) = 2
    /\ filteredData = Ret(data)

unknownFieldConditions ==
    {c \in EngineConditions :
        isValidFilter(c) /\ ~fieldMapHas(fieldDefinitions, c.fieldKey)}

\* C4: a valid condition whose fieldKey is the key of no FieldDefinition
\* raises no error and leaves the result as it is without the condition,
\* whatever string the fieldKey is.
C4_UnknownFieldIgnored ==
    \A c \in unknownFieldConditions : \A i \in positions :
        LET with == resultWith(c, i)
        IN  ~with.threw /\ with = filteredData

\* The same statement for the unknown keys that Object.prototype does not define.
C4_OwnKeysOnly ==
    \A c \in unknownFieldConditions : \A i \in positions :
        c.fieldKey \notin ObjectPrototypeKeys => resultWith(c, i) = filteredData

\* Conditions with an empty fieldKey or an empty operator, of every value shape.
gatedConditions ==
    { Cond("", "equals", sA),
      Cond("", "last7days", Undefined),
      Cond("", "", Obj([min |-> Num(1), max |-> EmptyString])),
      Cond("name", "", sB),
      Cond("active", "", Arr(<<sA>>)) }

\* C5: a condition with an empty fieldKey or an empty operator never changes
\* what applyFilters does, whatever its value and the other conditions are.
C5_ValidatorGating ==
    \A c \in gatedConditions : \A i \in positions : resultWith(c, i) = filteredData

C5_Witness ==
    /\ hasValidCondition
    /\ ~filteredData.threw
    /\ Len(filteredData.val) = 1
    /\ Len(data) = 2
    /\ \E i \in 1..Len(conditions) : conditions[i].operator = ""

\* C8: applyFilters is idempotent: filtering its own result with the same
\* conditions, schema and clock gives that result again.
C8_Idempotent ==
    (IF filteredData.threw THEN ThrowSeq
     ELSE applyFilters(filteredData.val, conditions, fieldDefinitions)) = filteredData

C8_Witness ==
    /\ hasValidCondition
    /\ ~filteredData.threw
    /\ Len(filteredData.val) = 1
    /\ Len(data) = 2
    /\ applyFilters(filteredData.val, conditions, fieldDefinitions) = filteredData

\* C9: adding one condition whose fieldKey no condition of the list uses
\* never adds a record: the call with the condition added returns, and
\* returns a subset of what the call without it returns.
C9_NewGroupNeverAdds ==
    \A c \in EngineConditions : \A i \in positions :
        (/\ \A j \in 1..Len(conditions) : conditions[j].fieldKey # c.fieldKey
         /\ ~filteredData.threw)
            => /\ ~resultWith(c, i).threw
               /\ kept(resultWith(c, i)) \subseteq kept(filteredData)

\* The same statement on the calls that return.
C9_WhenTheCallsReturn ==
    \A c \in EngineConditions : \A i \in positions :
        (/\ \A j \in 1..Len(conditions) : conditions[j].fieldKey # c.fieldKey
         /\ ~filteredData.threw
         /\ ~resultWith(c, i).threw)
            => kept(resultWith(c, i)) \subseteq kept(filteredData)

\* C10: adding one condition whose fieldKey already has a valid condition in
\* the list never removes a record: the call with the condition added
\* returns, and returns a superset of what the call without it returns.
C10_SameGroupNeverRemoves ==
    \A c \in EngineConditions : \A i \in positions :
        (/\ \E j \in 1..Len(conditions) :
                isValidFilter(conditions[j]) /\ conditions[j].fieldKey = c.fieldKey
         /\ ~filteredData.threw)
            => /\ ~resultWith(c, i).threw
               /\ kept(filteredData) \subseteq kept(resultWith(c, i))

\* The same statement on the calls that return.
C10_WhenTheCallsReturn ==
    \A c \in EngineConditions : \A i \in positions :
        (/\ \E j \in 1..Len(conditions) :
                isValidFilter(conditions[j]) /\ conditions[j].fieldKey = c.fieldKey
         /\ ~filteredData.threw
         /\ ~resultWith(c, i).threw)
            => kept(filteredData) \subseteq kept(resultWith(c, i))

(* --------------------- the engine on one condition --------------------- *)
(* SpecMatch: one record and one condition of any field, operator and      *)
(* value shape are chosen; the memoised pass of App.tsx is computed at the *)
(* first render and again on Recompute, the clock advances on Tick.        *)

MaxTicks == 1

DateRangeOf(start, end) == Obj([start |-> start, end |-> end])
NumberRangeOf(min, max) == Obj([min |-> min, max |-> max])

T140 == Str(<<"T140">>)
T186 == Str(<<"T186">>)
T187 == Str(<<"T187">>)
T188 == Str(<<"T188">>)

\* The schema: one field of every FieldType.
FILTER_FIELDS ==
    <<Field("name", "text"), Field("age", "number"), Field("joined", "date"),
      Field("salary", "amount"), Field("dept", "singleSelect"),
      Field("skills", "multiSelect"), Field("active", "boolean")>>

FieldKeys == {FILTER_FIELDS[i].key : i \in 1..Len(FILTER_FIELDS)}

\* The same with a nested Text field.
MatchSchema == FILTER_FIELDS \o <<Field("address.city", "text")>>

Operators == UNION {Range(OPERATORS_BY_TYPE[t]) : t \in DOMAIN OPERATORS_BY_TYPE}

mFull ==
    Obj([name |-> sAb, age |-> Num(5), joined |-> T187, salary |-> Num(5), dept |-> sA,
         skills |-> Arr(<<sA, sB>>), active |-> Bool(TRUE), address |-> Obj([city |-> sA])])
mOther ==
    Obj([name |-> sB, age |-> Num(0), joined |-> T140, salary |-> Num(0), dept |-> sB,
         skills |-> Arr(<<>>), active |-> Bool(FALSE), address |-> Obj([city |-> sAb])])
\* A record whose values have the wrong shape for their fields.
mWrong ==
    Obj([name |-> Num(5), age |-> sA, joined |-> sA, salary |-> Null, dept |-> Num(5),
         skills |-> sA, active |-> Num(0), address |-> sA])

MatchRecords == {mFull, mOther, EmptyObj, mWrong}

MatchValues ==
    { Undefined, Null, EmptyString, sA, Num(0), Num(5), Bool(FALSE), Bool(TRUE),
      Arr(<<>>), Arr(<<sA>>), Arr(<<sA, sB>>),
      EmptyDateRange, DateRangeOf(T186, EmptyString), DateRangeOf(EmptyString, T188),
      DateRangeOf(T186, T188),
      EmptyNumberRange, NumberRangeOf(Num(0), EmptyString), NumberRangeOf(EmptyString, Num(5)),
      NumberRangeOf(Num(1), Num(5)), EmptyObj }

MatchConditions ==
    { Cond(k, op, v) : k \in FieldKeys \cup {"address.city", ""}, op \in Operators \cup {""}, v \in MatchValues }

InitMatch ==
    /\ data \in {<<r>> : r \in MatchRecords}
    /\ fieldDefinitions = MatchSchema
    /\ conditions \in {<<c>> : c \in MatchConditions}
    /\ now = Now0
    /\ filteredData = applyFilters(data, conditions, fieldDefinitions)
    /\ nextId = 1
    /\ storage = <<>>
    /\ pending = <<>>

\* The clock moves on; nothing is recomputed (clock is no dependency of useMemo).
Tick ==
    /\ now < Now0 + MaxTicks
    /\ now' = now + 1
    /\ UNCHANGED <<data, conditions, fieldDefinitions, filteredData, nextId, storage, pending>>

\* The pass is computed again, at the present time.
Recompute ==
    /\ filteredData' = applyFilters(data, conditions, fieldDefinitions)
    /\ UNCHANGED <<data, conditions, fieldDefinitions, now, nextId, storage, pending>>

NextMatch == Tick \/ Recompute

SpecMatch == InitMatch /\ [][NextMatch]_vars

(* -------------------------- the validator's rules ---------------------- *)

isAbsent(v) == v = Undefined \/ v = Null
isDateRange(v) == v.t = "object" /\ {"start", "end"} \subseteq DOMAIN v.m
isNumberRange(v) == v.t = "object" /\ {"min", "max"} \subseteq DOMAIN v.m

validByRules(c) ==
    IF c.fieldKey = "" \/ c.operator = "" THEN FALSE
    ELSE IF c.operator \in {"last7days", "last30days", "last90days"} THEN TRUE
    ELSE IF isAbsent(c.value) \/ c.value = Str(<<>>) \/ c.value = Arr(<<>>) THEN FALSE
    ELSE IF isDateRange(c.value)
         THEN c.value.m.start # Str(<<>>) \/ c.value.m.end # Str(<<>>)
    ELSE IF isNumberRange(c.value)
         THEN c.value.m.min # Str(<<>>) \/ c.value.m.max # Str(<<>>)
    ELSE TRUE

\* C6: isValidFilter decides by these rules, in this order: an empty fieldKey
\* or operator is invalid; else a relative-date operator is valid whatever
\* the value; else an absent value, "" and [] are invalid; a DateRange is
\* valid iff start or end is non-empty; a NumberRange is valid iff min or
\* max is set; every other value (0 and false included) is valid.
C6_ValidatorRules ==
    \A i \in 1..Len(conditions) : isValidFilter(conditions[i]) = validByRules(conditions[i])

\* A range with the single bound 0 is accepted and evaluated.
C6_Witness ==
    /\ conditions = <<Cond("salary", "between", NumberRangeOf(Num(0), EmptyString))>>
    /\ isValidFilter(conditions[1])
    /\ data = <<EmptyObj>>
    /\ filteredData = Ret(<<>>)

(* ------------------------- the filter builder -------------------------- *)
(* SpecUI: the condition list of the useFilters hook, edited through the   *)
(* FilterRow handlers; every update is persisted; the table is filtered    *)
(* again once the debounce delay has passed.                               *)

MaxFilters == 2
MaxId == 2

employees == <<mFull>>

\* JSON.stringify keeps neither undefined nor functions (null inside a
\* list) and writes NaN as null.
jsonValue(v) ==
    CASE v.t = "NaN" -> Null
      [] v.t = "function" -> Undefined
      [] v.t = "array" ->
            Arr([i \in 1..Len(v.l) |->
                    IF v.l[i].t \in {"undefined", "function", "NaN"} THEN Null ELSE v.l[i]])
      [] v.t = "object" ->
            Obj([k \in {x \in DOMAIN v.m : v.m[x].t \notin {"undefined", "function"}} |->
                    IF v.m[k].t = "NaN" THEN Null ELSE v.m[k]])
      [] OTHER -> v

\* What localStorage holds after saveFilters(filters).
saveFilters(filters) ==
    [i \in 1..Len(filters) |-> [filters[i] EXCEPT !.value = jsonValue(@)]]

\* { ...c, ...patch }
spread(c, patch) == [k \in DOMAIN c |-> IF k \in DOMAIN patch THEN patch[k] ELSE c[k]]

\* setConditions(prev => { updated = ...; persist(updated); return updated })
setAndPersist(updated) ==
    /\ conditions' = updated
    /\ storage' = saveFilters(updated)

\* An id `filter-${nextId++}-${Date.now()}` is the pair of its two numbers.
generateId_counterOnly(n, t) == <<n, 0>>

generateId(n, t) == <<n, t>>

\* The row the updater of addFilter appends.
emptyCondition(n, t) ==
    [id |-> generateId(n, t), fieldKey |-> "", operator |-> "", value |-> EmptyString]

addFilter ==
    /\ Len(conditions) < MaxFilters
    /\ nextId <= MaxId
    /\ setAndPersist(Append(conditions, emptyCondition(nextId, now)))
    /\ nextId' = nextId + 1
    /\ UNCHANGED <<data, fieldDefinitions, now, filteredData, pending>>

\* prev.filter(c => c.id !== id)
withoutId(prev, id) == SelectSeq(prev, LAMBDA c : c.id # id)

removeFilter(id) ==
    /\ setAndPersist(withoutId(conditions, id))
    /\ UNCHANGED <<data, fieldDefinitions, now, filteredData, nextId, pending>>

\* A map that patches every row, whatever its id.
patched_everyRow(prev, id, patch) == [j \in 1..Len(prev) |-> spread(prev[j], patch)]

\* prev.map(c => c.id === id ? { ...c, ...patch } : c)
patched(prev, id, patch) ==
    [j \in 1..Len(prev) |-> IF prev[j].id = id THEN spread(prev[j], patch) ELSE prev[j]]

updateFilter(id, patch) ==
    /\ setAndPersist(patched(conditions, id, patch))
    /\ UNCHANGED <<data, fieldDefinitions, now, filteredData, nextId, pending>>

clearFilters ==
    /\ conditions' = <<>>
    /\ storage' = saveFilters(<<>>)
    /\ UNCHANGED <<data, fieldDefinitions, now, filteredData, nextId, pending>>

\* fields.find(f => f.key === key)
fieldsHas(fields, key) == \E i \in 1..Len(fields) : fields[i].key = key
fieldsFind(fields, key) ==
    fields[CHOOSE i \in 1..Len(fields) :
            /\ fields[i].key = key
            /\ \A j \in 1..Len(fields) : fields[j].key = key => i <= j]

\* The patch handleFieldChange hands to onUpdate.
fieldPatch(field) ==
    [fieldKey |-> field.key,
     operator |-> OPERATORS_BY_TYPE[field.type][1],
     value |-> getDefaultValue(field.type)]

handleFieldChange(i, fieldKey) ==
    /\ fieldsHas(fieldDefinitions, fieldKey)
    /\ updateFilter(conditions[i].id, fieldPatch(fieldsFind(fieldDefinitions, fieldKey)))

\* The patch handleOperatorChange hands to onUpdate.
operatorPatch(field, operator) ==
    [operator |-> operator, value |-> getDefaultValueForOperator(field.type, operator)]

\* The operators the operator menu of row i lists.
operatorsOf(i) ==
    IF fieldsHas(fieldDefinitions, conditions[i].fieldKey)
    THEN Range(OPERATORS_BY_TYPE[fieldsFind(fieldDefinitions, conditions[i].fieldKey).type])
    ELSE {}

handleOperatorChange(i, operator) ==
    /\ operator \in operatorsOf(i)
    /\ updateFilter(conditions[i].id,
            operatorPatch(fieldsFind(fieldDefinitions, conditions[i].fieldKey), operator))

\* { ...value, [key]: x } on the range the widget was given.
withBound(value, key, x) ==
    IF value.t = "object"
    THEN Obj([k \in DOMAIN value.m \cup {key} |-> IF k = key THEN x ELSE value.m[k]])
    ELSE Obj([k \in {key} |-> x])

TypedTexts == {EmptyString, sA}
TypedNumbers == {Num(0), Num(5)}
TypedBounds == {EmptyString, Num(5)}
PickedDates == {EmptyString, T187}
OptionValues == {sA, sB}
CheckedOptions == {Arr(<<>>), Arr(<<sA>>)}

\* The values the input rendered for (field, operator) can hand to onChange.
renderValueInput(fieldDef, value, operator) ==
    IF operator \in VALUELESS_OPERATORS THEN {}
    ELSE IF operator = "before" THEN {DateRangeOf(EmptyString, d) : d \in PickedDates}
    ELSE IF operator = "after" THEN {DateRangeOf(d, EmptyString) : d \in PickedDates}
    ELSE IF operator = "numberBetween"
         THEN {withBound(value, k, x) : k \in {"min", "max"}, x \in TypedBounds}
    ELSE CASE fieldDef.type = "text" -> TypedTexts
           [] fieldDef.type = "number" -> TypedNumbers
           [] fieldDef.type = "date" ->
                {withBound(value, k, d) : k \in {"start", "end"}, d \in PickedDates}
           [] fieldDef.type = "amount" ->
                {withBound(value, k, x) : k \in {"min", "max"}, x \in TypedBounds}
           [] fieldDef.type = "singleSelect" -> OptionValues
           [] fieldDef.type = "multiSelect" -> CheckedOptions
           [] fieldDef.type = "boolean" -> {Bool(TRUE), Bool(FALSE)}
           [] OTHER -> {}

handleValueChange(i, value) ==
    /\ fieldsHas(fieldDefinitions, conditions[i].fieldKey)
    /\ value \in renderValueInput(fieldsFind(fieldDefinitions, conditions[i].fieldKey),
                                  conditions[i].value, conditions[i].operator)
    /\ updateFilter(conditions[i].id, [value |-> value])

\* useDebouncedValue(conditions, 250) settles and the memoised pass reruns.
debouncedRefilter ==
    /\ filteredData' = applyFilters(data, conditions, fieldDefinitions)
    /\ UNCHANGED <<data, conditions, fieldDefinitions, now, nextId, storage, pending>>

UIValues ==
    UNION {renderValueInput(fd, v, op) :
            fd \in Range(FILTER_FIELDS), v \in {EmptyDateRange, EmptyNumberRange},
            op \in Operators}

InitUI ==
    /\ data = employees
    /\ fieldDefinitions = FILTER_FIELDS
    /\ conditions = <<>>
    /\ now = Now0
    /\ filteredData = applyFilters(data, conditions, fieldDefinitions)
    /\ nextId = 1
    /\ storage = <<>>
    /\ pending = <<>>

NextUI ==
    \/ addFilter
    \/ clearFilters
    \/ debouncedRefilter
    \/ \E i \in 1..Len(conditions) : removeFilter(conditions[i].id)
    \/ \E i \in 1..Len(conditions), fieldKey \in FieldKeys : handleFieldChange(i, fieldKey)
    \/ \E i \in 1..Len(conditions), operator \in Operators : handleOperatorChange(i, operator)
    \/ \E i \in 1..Len(conditions), value \in UIValues : handleValueChange(i, value)

SpecUI == InitUI /\ [][NextUI]_vars

(* ----------------------- half-composed conditions ---------------------- *)

withoutRow(conds, i) == SubSeq(conds, 1, i - 1) \o SubSeq(conds, i + 1, Len(conds))

\* Row i of the list is rejected by the validator and the pass is what it is
\* without the row.
excluded(conds, i) ==
    /\ ~isValidFilter(conds[i])
    /\ applyFilters(data, conds, fieldDefinitions)
            = applyFilters(data, withoutRow(conds, i), fieldDefinitions)

\* The list after addFilter, after handleFieldChange(fieldKey) on row i and
\* after handleOperatorChange(operator) on row i.
added == Append(conditions, emptyCondition(nextId, now))
fieldChanged(i, fieldKey) ==
    patched(conditions, conditions[i].id, fieldPatch(fieldsFind(fieldDefinitions, fieldKey)))
operatorChanged(i, operator) ==
    patched(conditions, conditions[i].id,
            operatorPatch(fieldsFind(fieldDefinitions, conditions[i].fieldKey), operator))

typeOfRow(i) == fieldsFind(fieldDefinitions, conditions[i].fieldKey).type
typeOfKey(fieldKey) == fieldsFind(fieldDefinitions, fieldKey).type

\* C7 as stated: a condition just created by addFilter, or one that has just
\* received a field or an operator other than a relative-date one, is
\* rejected by isValidFilter for every field type, and the result of
\* applyFilters is the same as without it.
C7_HalfComposedExcluded ==
    /\ excluded(added, Len(added))
    /\ \A i \in 1..Len(conditions) :
        /\ \A fieldKey \in FieldKeys : excluded(fieldChanged(i, fieldKey), i)
        /\ \A operator \in operatorsOf(i) \ VALUELESS_OPERATORS :
                excluded(operatorChanged(i, operator), i)

\* C7, amended: the condition is excluded when it has just been created and
\* when the field or operator it has just received resets its value to an
\* empty one (Text, Date, Amount, SingleSelect, MultiSelect, and Number with
\* numberBetween); a Number comparison starts from the value 0 and a Boolean
\* condition from true: isValidFilter accepts them and they are evaluated
\* at once.
C7_ExcludedUnlessDefaultIsAValue ==
    /\ excluded(added, Len(added))
    /\ \A i \in 1..Len(conditions) :
        /\ \A fieldKey \in FieldKeys :
                IF typeOfKey(fieldKey) \in {"number", "boolean"}
                THEN isValidFilter(fieldChanged(i, fieldKey)[i])
                ELSE excluded(fieldChanged(i, fieldKey), i)
        /\ \A operator \in operatorsOf(i) \ VALUELESS_OPERATORS :
                IF \/ typeOfRow(i) = "boolean"
                   \/ typeOfRow(i) = "number" /\ operator # "numberBetween"
                THEN isValidFilter(operatorChanged(i, operator)[i])
                ELSE excluded(operatorChanged(i, operator), i)

\* A row that was only given the Number field filters the table by age = 0.
C7_Witness ==
    /\ Len(conditions) = 1
    /\ conditions[1].fieldKey = "age"
    /\ conditions[1].operator = "eq"
    /\ conditions[1].value = getDefaultValue("number")
    /\ isValidFilter(conditions[1])
    /\ filteredData = Ret(<<>>)

(* --------------------------- frame of the pass ------------------------- *)

\* s is t with some elements left out: same elements, same order, none twice
\* as often.
RECURSIVE IsSubsequence(_, _)
IsSubsequence(s, t) ==
    IF Len(s) = 0 THEN TRUE
    ELSE IF Len(t) = 0 THEN FALSE
    ELSE IF Head(s) = Head(t) THEN IsSubsequence(Tail(s), Tail(t))
    ELSE IsSubsequence(s, Tail(t))

\* C11: the result of applyFilters is a subsequence of the input dataset
\* (only records of the input, none more often than in the input, in the
\* same relative order), and the call leaves the records, the conditions
\* it was given and the field definitions unchanged.
C11_SubsequenceAndFrame ==
    /\ [](~filteredData.threw => IsSubsequence(filteredData.val, data))
    /\ [][/\ data' = data
          /\ fieldDefinitions' = fieldDefinitions
          /\ SubSeq(conditions', 1, Len(conditions)) = conditions]_vars

\* Two different records are both kept, in the order of the dataset.
C11_Witness ==
    /\ hasValidCondition
    /\ ~filteredData.threw
    /\ Len(filteredData.val) = 2
    /\ filteredData.val[1] # filteredData.val[2]
    /\ filteredData.val = data

(* ------------------------- the pass and the clock ---------------------- *)

\* The list holds a condition that reads the clock: a valid last7days,
\* last30days or last90days condition on a Date field.
usesClock ==
    \E i \in 1..Len(conditions) :
        /\ isValidFilter(conditions[i])
        /\ conditions[i].operator \in VALUELESS_OPERATORS
        /\ fieldMapHas(fieldDefinitions, conditions[i].fieldKey)
        /\ fieldMapGet(fieldDefinitions, conditions[i].fieldKey).type = "date"

\* C12 as stated: two calls with the same dataset, condition list and field
\* definitions return the same records whenever they are made: the result
\* of the earlier call is the result of a call made now.
C12_SameArgumentsSameResult ==
    filteredData = applyFilters(data, conditions, fieldDefinitions)

\* C12, amended: applyFilters is a function of its three arguments and of
\* the time of the call; the time matters only when the list holds a valid
\* relative-date condition on a Date field, and without one two calls with
\* the same arguments return the same records whenever they are made.
C12_SameResultUnlessRelativeDate ==
    usesClock \/ filteredData = applyFilters(data, conditions, fieldDefinitions)

\* A Date condition with a fixed bound, evaluated before and after the
\* clock moved, keeps the record both times.
C12_Witness ==
    /\ now > Now0
    /\ conditions = <<Cond("joined", "before", DateRangeOf(EmptyString, T188))>>
    /\ data = <<mFull>>
    /\ ~usesClock
    /\ filteredData = Ret(data)
    /\ applyFilters(data, conditions, fieldDefinitions) = Ret(data)

(* --------------------- operators foreign to the type ------------------- *)

\* The one condition of the list is valid, its field has a definition, and
\* the call returned.
evaluated ==
    /\ isValidFilter(conditions[1])
    /\ fieldMapHas(fieldDefinitions, conditions[1].fieldKey)
    /\ ~filteredData.threw

typeOfCondition == fieldMapGet(fieldDefinitions, conditions[1].fieldKey).type

foreignOperator == conditions[1].operator \notin Range(OPERATORS_BY_TYPE[typeOfCondition])

\* C13: for every field type, a valid condition whose operator is not in the
\* operator set of the field's type matches no record, so that alone in its
\* group it empties the result.
C13_ForeignOperatorNoMatch ==
    (evaluated /\ foreignOperator) => filteredData.val = <<>>

\* The same statement for the matchers that look at the operator.
C13_WhereTheOperatorIsRead ==
    (evaluated /\ foreignOperator /\ typeOfCondition \in {"text", "number", "date", "singleSelect"})
        => filteredData.val = <<>>

(* ------------------ MultiSelect on a non-sequence value ---------------- *)

\* The record holds no sequence at the path of the condition.
noSequenceAtPath == ~IsArray(getNestedValue(data[1], conditions[1].fieldKey))

nonEmptyList(v) == IsArray(v) /\ Len(v.l) > 0

\* C14: on a MultiSelect field, a record whose value at the field path is
\* not a sequence matches no condition, for each of the operators in, notIn
\* and all and every non-empty selected list.
C14_NonSequenceNeverMatches ==
    (/\ conditions[1].fieldKey = "skills"
     /\ conditions[1].operator \in {"in", "notIn", "all"}
     /\ nonEmptyList(conditions[1].value)
     /\ noSequenceAtPath)
        => filteredData = Ret(<<>>)

\* The same statement for the operators in and all.
C14_InAndAll ==
    (/\ conditions[1].fieldKey = "skills"
     /\ conditions[1].operator \in {"in", "all"}
     /\ nonEmptyList(conditions[1].value)
     /\ noSequenceAtPath)
        => filteredData = Ret(<<>>)

(* ---------------------------- default values --------------------------- *)

FieldTypes == DOMAIN OPERATORS_BY_TYPE

\* The default of each field type, as the table of the claim gives it.
defaultByType ==
    [text |-> Str(<<>>),
     number |-> Num(0),
     date |-> Obj([start |-> Str(<<>>), end |-> Str(<<>>)]),
     amount |-> Obj([min |-> Str(<<>>), max |-> Str(<<>>)]),
     singleSelect |-> Str(<<>>),
     multiSelect |-> Arr(<<>>),
     boolean |-> Bool(TRUE)]

defaultByOperator(type, operator) ==
    IF operator \in {"last7days", "last30days", "last90days"} THEN defaultByType.date
    ELSE IF operator = "numberBetween" THEN defaultByType.amount
    ELSE defaultByType[type]

\* C15: getDefaultValue returns "" for Text and SingleSelect, 0 for Number,
\* an empty DateRange for Date, an empty NumberRange for Amount, [] for
\* MultiSelect and true for Boolean; getDefaultValueForOperator returns an
\* empty DateRange for every relative-date operator and an empty NumberRange
\* for numberBetween whatever the type, else what getDefaultValue returns;
\* these are the values a row holds after a field or an operator change.
C15_DefaultValues ==
    /\ \A type \in FieldTypes :
        /\ getDefaultValue(type) = defaultByType[type]
        /\ \A operator \in Operators \cup {""} :
                getDefaultValueForOperator(type, operator) = defaultByOperator(type, operator)
    /\ \A i \in 1..Len(conditions) :
        /\ \A fieldKey \in FieldKeys :
                fieldChanged(i, fieldKey)[i].value = defaultByType[typeOfKey(fieldKey)]
        /\ \A operator \in operatorsOf(i) :
                operatorChanged(i, operator)[i].value = defaultByOperator(typeOfRow(i), operator)

\* A Number row switched to numberBetween holds the empty NumberRange.
C15_Witness ==
    /\ Len(conditions) = 2
    /\ conditions[2].fieldKey = "age"
    /\ conditions[2].operator = "numberBetween"
    /\ conditions[2].value = defaultByType.amount
    /\ conditions[1].operator = "last30days"
    /\ conditions[1].value = defaultByType.date

(* ----------------------- queued state updates -------------------------- *)
(* SpecHook: the callbacks of useFilters hand their updates to             *)
(* setConditions, which queues them; the queued updates run in order at    *)
(* the next render, which may come after one call or after several.  A     *)
(* page reload starts the module again: the counter restarts at 1 and the  *)
(* list is read back from storage.                                         *)

MaxPending == 2
MaxReloads == 1

NoId == <<0, 0>>
NoPatch == [value |-> EmptyString]

\* The patches the rows hand to updateFilter in this specification.
HookPatches == {fieldPatch(FILTER_FIELDS[1]), [value |-> sA]}

pendingAdds == Cardinality({i \in 1..Len(pending) : pending[i].op = "add"})

\* setConditions(update): the update waits for the next render.
setConditions(update) ==
    /\ Len(pending) < MaxPending
    /\ pending' = Append(pending, update)

addFilterCall ==
    /\ Len(conditions) + pendingAdds < MaxFilters
    /\ nextId + pendingAdds <= MaxId
    /\ setConditions([op |-> "add", id |-> NoId, patch |-> NoPatch])
    /\ UNCHANGED <<data, conditions, fieldDefinitions, now, filteredData, nextId, storage>>

removeFilterCall(id) ==
    /\ setConditions([op |-> "remove", id |-> id, patch |-> NoPatch])
    /\ UNCHANGED <<data, conditions, fieldDefinitions, now, filteredData, nextId, storage>>

updateFilterCall(id, patch) ==
    /\ setConditions([op |-> "update", id |-> id, patch |-> patch])
    /\ UNCHANGED <<data, conditions, fieldDefinitions, now, filteredData, nextId, storage>>

\* setConditions([]); persist([]): the empty list is stored by the call
\* itself, not by an updater.
clearFiltersCall ==
    /\ setConditions([op |-> "clear", id |-> NoId, patch |-> NoPatch])
    /\ storage' = saveFilters(<<>>)
    /\ UNCHANGED <<data, conditions, fieldDefinitions, now, filteredData, nextId>>

\* The queued updates applied in order to prev: every updater stores the
\* list it returns; the plain value [] of clearFilters stores nothing.
RECURSIVE processUpdateQueue(_, _, _, _, _)
processUpdateQueue(prev, queue, n, stored, t) ==
    IF queue = <<>> THEN [conditions |-> prev, nextId |-> n, storage |-> stored]
    ELSE LET update == Head(queue)
             updated ==
                CASE update.op = "add" -> Append(prev, emptyCondition(n, t))
                  [] update.op = "remove" -> withoutId(prev, update.id)
                  [] update.op = "update" -> patched(prev, update.id, update.patch)
                  [] OTHER -> <<>>
         IN  processUpdateQueue(updated, Tail(queue),
                                IF update.op = "add" THEN n + 1 ELSE n,
                                IF update.op = "clear" THEN stored ELSE saveFilters(updated),
                                t)

\* React renders the component: the queue is processed.
render ==
    /\ pending # <<>>
    /\ LET after == processUpdateQueue(conditions, pending, nextId, storage, now)
       IN  /\ conditions' = after.conditions
           /\ nextId' = after.nextId
           /\ storage' = after.storage
    /\ pending' = <<>>
    /\ UNCHANGED <<data, fieldDefinitions, now, filteredData>>

\* JSON.parse of what saveFilters wrote; no key, no list.
loadFilters(raw) == raw

\* The page is loaded again, later: useState starts from the stored list.
reload ==
    /\ now < Now0 + MaxReloads
    /\ now' = now + 1
    /\ nextId' = 1
    /\ conditions' = (IF Len(loadFilters(storage)) > 0 THEN loadFilters(storage) ELSE <<>>)
    /\ pending' = <<>>
    /\ UNCHANGED <<data, fieldDefinitions, filteredData, storage>>

InitHook ==
    /\ data = employees
    /\ fieldDefinitions = FILTER_FIELDS
    /\ conditions = <<>>
    /\ now = Now0
    /\ filteredData = applyFilters(data, conditions, fieldDefinitions)
    /\ nextId = 1
    /\ storage = <<>>
    /\ pending = <<>>

NextHook ==
    \/ addFilterCall
    \/ clearFiltersCall
    \/ render
    \/ reload
    \/ \E i \in 1..Len(conditions) : removeFilterCall(conditions[i].id)
    \/ \E i \in 1..Len(conditions), patch \in HookPatches :
            updateFilterCall(conditions[i].id, patch)

SpecHook == InitHook /\ [][NextHook]_vars

(* ------------------------ the stored list ------------------------------ *)

\* C16: once no update is pending, the list stored by saveFilters is the
\* hook's conditions list.
C16_StoredEqualsCurrent == pending = <<>> => storage = saveFilters(conditions)

\* With no clearFilters call waiting in the queue behind an updater, the
\* stored list is the current one once the queue has run.
clearBehindUpdater ==
    \E i, j \in 1..Len(pending) : i < j /\ pending[i].op # "clear" /\ pending[j].op = "clear"

C16_UnlessClearedBehindAnUpdater ==
    [][(render /\ ~clearBehindUpdater) => storage' = saveFilters(conditions')]_vars

(* ------------------- operator and value of a row ----------------------- *)

\* The shape of value the pair (type, operator) expects.
expectedShape(type, operator) ==
    CASE type \in {"text", "singleSelect"} -> "string"
      [] type = "number" -> IF operator = "numberBetween" THEN "NumberRange" ELSE "number"
      [] type = "amount" -> "NumberRange"
      [] type = "date" -> "DateRange"
      [] type = "multiSelect" -> "list"
      [] type = "boolean" -> "boolean"

hasShape(v, shape) ==
    CASE shape = "string" -> v.t = "string"
      [] shape = "number" -> v.t = "number"
      [] shape = "NumberRange" ->
            /\ v.t = "object"
            /\ DOMAIN v.m = {"min", "max"}
            /\ \A k \in DOMAIN v.m : v.m[k].t = "number" \/ v.m[k] = EmptyString
      [] shape = "DateRange" ->
            /\ v.t = "object"
            /\ DOMAIN v.m = {"start", "end"}
            /\ \A k \in DOMAIN v.m : v.m[k].t = "string"
      [] shape = "list" -> v.t = "array" /\ \A j \in 1..Len(v.l) : v.l[j].t = "string"
      [] shape = "boolean" -> v.t = "boolean"

\* C17: in every state of the builder, a condition with a non-empty
\* operator has a field of the schema, an operator of that field's type and
\* a value of the shape the pair (type, operator) expects.
C17_OperatorAndShape ==
    \A i \in 1..Len(conditions) :
        conditions[i].operator # "" =>
            /\ fieldsHas(fieldDefinitions, conditions[i].fieldKey)
            /\ conditions[i].operator \in Range(OPERATORS_BY_TYPE[typeOfRow(i)])
            /\ hasShape(conditions[i].value,
                        expectedShape(typeOfRow(i), conditions[i].operator))

\* A Number row switched to numberBetween whose upper bound was typed, next
\* to a Date row on a relative operator.
C17_Witness ==
    /\ Len(conditions) = 2
    /\ conditions[1].fieldKey = "age"
    /\ conditions[1].operator = "numberBetween"
    /\ conditions[1].value = NumberRangeOf(EmptyString, Num(5))
    /\ conditions[2].fieldKey = "joined"
    /\ conditions[2].operator = "last7days"

(* ------------------------ what an edit changes ------------------------- *)

\* The list after handleValueChange(value) on row i and after the removal
\* of row i's id.
valueChanged(i, value) == patched(conditions, conditions[i].id, [value |-> value])
removed(i) == withoutId(conditions, conditions[i].id)

\* after = before but for the fields of row i named in replaced.
onlyRowChanged(before, after, i, replaced) ==
    /\ Len(after) = Len(before)
    /\ \A j \in 1..Len(before) : j # i => after[j] = before[j]
    /\ after[i].id = before[i].id
    /\ \A k \in {"fieldKey", "operator", "value"} \ replaced : after[i][k] = before[i][k]

\* C18: addFilter appends a row with empty fieldKey and operator; a field
\* change sets fieldKey, operator and value of its row, an operator change
\* operator and value, a value change the value; each leaves the row's id,
\* the other rows and the order as they were; removeFilter deletes the row
\* with the given id and no other.
C18_EditsTouchTheirRowOnly ==
    /\ Len(added) = Len(conditions) + 1
    /\ SubSeq(added, 1, Len(conditions)) = conditions
    /\ added[Len(added)].fieldKey = ""
    /\ added[Len(added)].operator = ""
    /\ \A i \in 1..Len(conditions) :
        /\ \A fieldKey \in FieldKeys :
            /\ onlyRowChanged(conditions, fieldChanged(i, fieldKey), i,
                              {"fieldKey", "operator", "value"})
            /\ fieldChanged(i, fieldKey)[i].fieldKey = fieldKey
            /\ fieldChanged(i, fieldKey)[i].operator = OPERATORS_BY_TYPE[typeOfKey(fieldKey)][1]
            /\ fieldChanged(i, fieldKey)[i].value = getDefaultValue(typeOfKey(fieldKey))
        /\ \A operator \in operatorsOf(i) :
            /\ onlyRowChanged(conditions, operatorChanged(i, operator), i,
                              {"operator", "value"})
            /\ operatorChanged(i, operator)[i].operator = operator
            /\ operatorChanged(i, operator)[i].value
                    = getDefaultValueForOperator(typeOfRow(i), operator)
        /\ \A value \in UIValues :
            /\ onlyRowChanged(conditions, valueChanged(i, value), i, {"value"})
            /\ valueChanged(i, value)[i].value = value
        /\ removed(i) = withoutRow(conditions, i)

\* Two rows, the first composed through a field change, an operator change
\* and a value change, the second still as addFilter made it.
C18_Witness ==
    /\ Len(conditions) = 2
    /\ conditions[1].fieldKey = "name"
    /\ conditions[1].operator = "contains"
    /\ conditions[1].value = sA
    /\ conditions[2].fieldKey = ""
    /\ conditions[2].operator = ""
    /\ conditions[1].id # conditions[2].id

(* ----------------------------- identity -------------------------------- *)

numericCondition == evaluated /\ typeOfCondition \in {"number", "amount"}
rawValue == getNestedValue(data[1], conditions[1].fieldKey)

\* C20: on a Number or Amount field, a record whose path is missing or
\* whose value there is not a number is kept by no condition.
C20_NonNumberNeverMatches ==
    (numericCondition /\ rawValue.t # "number") => filteredData.val = <<>>

\* The same for a missing path and for a value Number() turns into NaN.
C20_MissingOrUnparseable ==
    (numericCondition /\ (rawValue = Undefined \/ rawValue = sA)) => filteredData.val = <<>>

(* --------------------------- number ranges ----------------------------- *)

RangeNumbers == {Num(n) : n \in (0 - 1)..6}
RangeBounds == {EmptyString, Num(0), Num(1), Num(5)}
NumberRanges == {NumberRangeOf(lo, hi) : lo \in RangeBounds, hi \in RangeBounds}

\* (min is empty or v >= min) and (max is empty or v <= max)
withinBounds(v, range) ==
    /\ range.m.min = EmptyString \/ v.n >= range.m.min.n
    /\ range.m.max = EmptyString \/ v.n <= range.m.max.n

numericRecord ==
    /\ getNestedValue(data[1], "age").t = "number"
    /\ getNestedValue(data[1], "salary") = getNestedValue(data[1], "age")

\* C21: numberBetween on a Number field and between on an Amount field give
\* the same result for every numeric value and every NumberRange, true iff
\* the value lies within the bounds that are set, both inclusive; a record
\* with the same number in both fields is kept by both or by neither.
C21_SameRangeSemantics ==
    /\ conditions[1].fieldKey \in {"age", "salary"} =>
        \A v \in RangeNumbers, range \in NumberRanges :
        /\ matchNumber(v, range, "numberBetween") = Ret(withinBounds(v, range))
        /\ matchAmountRange(v, range) = Ret(withinBounds(v, range))
    /\ (numericRecord /\ conditions[1].value \in NumberRanges) =>
        /\ applyFilters(data, <<Cond("age", "numberBetween", conditions[1].value)>>,
                        fieldDefinitions)
            = applyFilters(data, <<Cond("salary", "between", conditions[1].value)>>,
                           fieldDefinitions)
        /\ (conditions[1].fieldKey = "salary" /\ isValidFilter(conditions[1])) =>
                filteredData
                    = Ret(IF withinBounds(getNestedValue(data[1], "salary"), conditions[1].value)
                          THEN data ELSE <<>>)

\* The record with age and salary 5 is kept by the range 1..5: the upper
\* bound is inclusive.
C21_Witness ==
    /\ data = <<mFull>>
    /\ conditions = <<Cond("salary", "between", NumberRangeOf(Num(1), Num(5)))>>
    /\ filteredData = Ret(data)
    /\ applyFilters(data, <<Cond("age", "numberBetween", conditions[1].value)>>,
                    fieldDefinitions) = Ret(data)

(* ----------------------------- selections ------------------------------ *)

OptionLists ==
    {Arr(l) : l \in {<<>>, <<sA>>, <<sB>>, <<sAb>>, <<sA, sB>>, <<sB, sA>>, <<sA, sAb>>}}

elements(list) == {list.l[i] : i \in 1..Len(list.l)}

\* What the operator asks of the record list V and the selected list S.
selectionMatches(V, S, operator) ==
    CASE operator = "in" -> elements(V) \cap elements(S) # {}
      [] operator = "notIn" -> elements(V) \cap elements(S) = {}
      [] operator = "all" -> elements(S) \subseteq elements(V)

\* C22: on lists V and S, S not empty, `in` matches iff they share an
\* element, `notIn` iff they share none, `all` iff every element of S is in
\* V; with S empty the matcher returns true whatever the operator; a record
\* with a list at a MultiSelect field is kept accordingly.
C22_MultiSelectSemantics ==
    /\ conditions[1].fieldKey = "skills" =>
        \A V \in OptionLists, S \in OptionLists :
        IF S.l = <<>>
        THEN \A operator \in Operators \cup {""} : matchMultiSelect(V, S, operator) = Ret(TRUE)
        ELSE /\ \A operator \in {"in", "notIn", "all"} :
                    matchMultiSelect(V, S, operator) = Ret(selectionMatches(V, S, operator))
             /\ matchMultiSelect(V, S, "notIn").val = ~matchMultiSelect(V, S, "in").val
    /\ ( /\ conditions[1].fieldKey = "skills"
         /\ conditions[1].operator \in {"in", "notIn", "all"}
         /\ nonEmptyList(conditions[1].value)
         /\ IsArray(getNestedValue(data[1], "skills")) ) =>
            filteredData
                = Ret(IF selectionMatches(getNestedValue(data[1], "skills"),
                                          conditions[1].value, conditions[1].operator)
                      THEN data ELSE <<>>)

\* The record with skills [a, b] is kept by `all [a, b]`.
C22_Witness ==
    /\ data = <<mFull>>
    /\ conditions = <<Cond("skills", "all", Arr(<<sA, sB>>))>>
    /\ filteredData = Ret(data)
    /\ matchMultiSelect(Arr(<<sA>>), conditions[1].value, "all") = Ret(FALSE)

(* ------------------------- the case of letters ------------------------- *)
(* SpecText: one record with a name, one Text condition on it; the case of *)
(* one letter of the name or of the condition value is changed and the     *)
(* dataset is filtered again.                                              *)

MaxTextLen == 2

Letters == {"a", "A", "b", "i", "I", "i_dotless"}

\* The same letter in the other case: toUpperCase of a lower-case letter,
\* toLowerCase of an upper-case one ("i_dotless".toUpperCase() is "I").
otherCase(ch) ==
    CASE ch = "a" -> "A"
      [] ch = "A" -> "a"
      [] ch = "b" -> "B"
      [] ch = "B" -> "b"
      [] ch = "i" -> "I"
      [] ch = "I" -> "i"
      [] ch = "i_dotless" -> "I"
      [] OTHER -> ch

TextValues == UNION {[1..n -> Letters] : n \in 0..MaxTextLen}

CASE_FREE_OPERATORS == {"equals", "contains", "startsWith", "endsWith", "doesNotContain"}

named(v) == Obj([name |-> Str(v)])
nameOf(record) == record.m.name.s

caseChanged(s, i) == [s EXCEPT ![i] = otherCase(s[i])]

InitText ==
    /\ data \in {<<named(v)>> : v \in TextValues}
    /\ fieldDefinitions = MatchSchema
    /\ conditions \in {<<Cond("name", op, Str(f))>> :
                            op \in CASE_FREE_OPERATORS, f \in TextValues \ {<<>>}}
    /\ now = Now0
    /\ filteredData = applyFilters(data, conditions, fieldDefinitions)
    /\ nextId = 1
    /\ storage = <<>>
    /\ pending = <<>>

changeRecordCase(i) ==
    /\ data' = <<named(caseChanged(nameOf(data[1]), i))>>
    /\ filteredData' = applyFilters(data', conditions, fieldDefinitions)
    /\ UNCHANGED <<conditions, fieldDefinitions, now, nextId, storage, pending>>

changeConditionCase(i) ==
    /\ conditions' = <<[conditions[1] EXCEPT !.value = Str(caseChanged(@.s, i))]>>
    /\ filteredData' = applyFilters(data, conditions', fieldDefinitions)
    /\ UNCHANGED <<data, fieldDefinitions, now, nextId, storage, pending>>

NextText ==
    \/ \E i \in 1..Len(nameOf(data[1])) : changeRecordCase(i)
    \/ \E i \in 1..Len(conditions[1].value.s) : changeConditionCase(i)

SpecText == InitText /\ [][NextText]_vars

\* Whether the only record is kept.
keepsRecord(result) == ~result.threw /\ Len(result.val) = 1

keptWithRecordCase(i) ==
    keepsRecord(applyFilters(<<named(caseChanged(nameOf(data[1]), i))>>, conditions,
                             fieldDefinitions))
keptWithConditionCase(i) ==
    keepsRecord(applyFilters(data,
                    <<[conditions[1] EXCEPT !.value = Str(caseChanged(@.s, i))]>>,
                    fieldDefinitions))
keptWithOperator(operator) ==
    keepsRecord(applyFilters(data, <<[conditions[1] EXCEPT !.operator = operator]>>,
                             fieldDefinitions))

negatesContains == keptWithOperator("doesNotContain") = ~keptWithOperator("contains")

\* The letters whose two cases have one lower-case form: all but the
\* dotless i, whose upper case "I" has the lower case "i".
foldsToOne(ch) == ch \in {"a", "A", "b", "B", "i", "I"}

\* C23 as stated: changing the case of any letter of the record value or of
\* the condition value changes no result of equals, contains, startsWith,
\* endsWith and doesNotContain, and doesNotContain negates contains.
C23_CaseNeverMatters ==
    /\ ~filteredData.threw
    /\ \A i \in 1..Len(nameOf(data[1])) : keptWithRecordCase(i) = keepsRecord(filteredData)
    /\ \A i \in 1..Len(conditions[1].value.s) :
            keptWithConditionCase(i) = keepsRecord(filteredData)
    /\ negatesContains

\* C23 for the letters whose two cases have one lower-case form (every
\* letter of A-Z and a-z).
C23_CaseOfFoldingLetters ==
    /\ ~filteredData.threw
    /\ \A i \in 1..Len(nameOf(data[1])) :
            foldsToOne(nameOf(data[1])[i]) => keptWithRecordCase(i) = keepsRecord(filteredData)
    /\ \A i \in 1..Len(conditions[1].value.s) :
            foldsToOne(conditions[1].value.s[i]) =>
                keptWithConditionCase(i) = keepsRecord(filteredData)
    /\ negatesContains

\* "Ab" contains "B": kept, though no letter of the value has the case of
\* the record's.
C23_Witness ==
    /\ nameOf(data[1]) = <<"A", "b">>
    /\ conditions = <<Cond("name", "contains", Str(<<"B">>))>>
    /\ filteredData = Ret(data)

(* ------------------------ patterns that fail --------------------------- *)

\* Condition i is a Text regex condition whose pattern does not compile and
\* the only condition of its field.
invalidPatternAt(i) ==
    /\ conditions[i].operator = "regex"
    /\ conditions[i].value = sParen
    /\ fieldMapHas(fieldDefinitions, conditions[i].fieldKey)
    /\ fieldMapGet(fieldDefinitions, conditions[i].fieldKey).type = "text"
    /\ \A j \in 1..Len(conditions) : conditions[j].fieldKey = conditions[i].fieldKey => j = i

hasInvalidPattern == \E i \in 1..Len(conditions) : invalidPatternAt(i)

\* C24: with a Text regex condition whose pattern does not compile as the
\* only condition of its field, applyFilters raises no error and returns the
\* empty list, whatever the dataset and the other conditions.
C24_InvalidPatternMatchesNothing == hasInvalidPattern => filteredData = Ret(<<>>)

\* Whenever the call returns, it returns the empty list.
C24_WhenTheCallReturns ==
    (hasInvalidPattern /\ ~filteredData.threw) => filteredData.val = <<>>

\* Alone in the list, the condition raises no error.
C24_AloneInTheList ==
    (hasInvalidPattern /\ Len(conditions) = 1) => filteredData = Ret(<<>>)

(* ------------------------------ date ranges ---------------------------- *)

DateTexts == {"T140", "T141", "T186", "T187", "T188"}
DateBounds == {EmptyString} \cup {Str(<<d>>) : d \in DateTexts}
DateRanges == {DateRangeOf(s, e) : s \in DateBounds, e \in DateBounds}

\* The calendar day of a date text.
dayOfText(d) == DateTick[d] \div TicksPerDay
dayOfBound(b) == dayOfText(b.s[1])

\* start <= date <= end by calendar day, on the endpoints that are set.
betweenDays(d, range) ==
    /\ range.m.start = EmptyString \/ dayOfBound(range.m.start) <= dayOfText(d)
    /\ range.m.end = EmptyString \/ dayOfText(d) <= dayOfBound(range.m.end)

joinedOf(record) == getNestedValue(record, "joined")
hasDate(record) == joinedOf(record).t = "string" /\ joinedOf(record).s \in {<<d>> : d \in DateTexts}

dateCondition(operators) ==
    /\ conditions[1].fieldKey = "joined"
    /\ conditions[1].operator \in operators
    /\ isValidFilter(conditions[1])

\* C25: `between` never matches an invalid date; with both endpoints set it
\* matches iff start <= date <= end by calendar day, with one endpoint set
\* that bound alone is enforced, inclusively, and with none every valid date
\* matches; a record is kept accordingly.
C25_BetweenByDay ==
    /\ conditions[1].fieldKey = "joined" =>
        \A range \in DateRanges :
            /\ \A d \in DateTexts :
                    matchDate(<<d>>, range, "between") = Ret(betweenDays(d, range))
            /\ \A text \in {<<>>, <<"a">>, S_undefined} :
                    matchDate(text, range, "between") = Ret(FALSE)
    /\ (dateCondition({"between"}) /\ conditions[1].value \in DateRanges) =>
            filteredData
                = Ret(IF hasDate(data[1]) /\ betweenDays(joinedOf(data[1]).s[1], conditions[1].value)
                      THEN data ELSE <<>>)

\* The record that joined later on the day of the start is kept by the
\* range that starts that day, and a record without a date is not.
C25_Witness ==
    /\ data = <<mFull>>
    /\ conditions = <<Cond("joined", "between", DateRangeOf(T186, EmptyString))>>
    /\ filteredData = Ret(data)
    /\ applyFilters(<<EmptyObj>>, conditions, fieldDefinitions) = Ret(<<>>)

(* --------------------------- before and after -------------------------- *)

\* The bound `before` reads: end, or start when end is empty; `after` reads
\* start, or end when start is empty.  EmptyString when neither is set.
boundOfBefore(range) == IF range.m.end # EmptyString THEN range.m.end ELSE range.m.start
boundOfAfter(range) == IF range.m.start # EmptyString THEN range.m.start ELSE range.m.end

strictlyBefore(d, range) ==
    boundOfBefore(range) = EmptyString \/ dayOfText(d) < dayOfBound(boundOfBefore(range))
strictlyAfter(d, range) ==
    boundOfAfter(range) = EmptyString \/ dayOfText(d) > dayOfBound(boundOfAfter(range))

oneBound(range) ==
    /\ range \in DateRanges
    /\ (range.m.start = EmptyString) # (range.m.end = EmptyString)

\* C26: `before` matches iff the date is strictly earlier, by day, than the
\* range's end (its start when the end is empty), `after` iff it is strictly
\* later than the range's start (its end when the start is empty); without a
\* bound both match every valid date; for one bound day no date matches both
\* and a date on that day matches neither; a record is kept accordingly.
C26_BeforeAndAfter ==
    /\ conditions[1].fieldKey = "joined" =>
        \A range \in DateRanges, d \in DateTexts :
            /\ matchDate(<<d>>, range, "before") = Ret(strictlyBefore(d, range))
            /\ matchDate(<<d>>, range, "after") = Ret(strictlyAfter(d, range))
            /\ oneBound(range) =>
                /\ ~(matchDate(<<d>>, range, "before").val /\ matchDate(<<d>>, range, "after").val)
                /\ dayOfText(d) = dayOfBound(boundOfBefore(range)) =>
                        /\ ~matchDate(<<d>>, range, "before").val
                        /\ ~matchDate(<<d>>, range, "after").val
    /\ (dateCondition({"before", "after"}) /\ conditions[1].value \in DateRanges) =>
            filteredData
                = Ret(IF /\ hasDate(data[1])
                         /\ IF conditions[1].operator = "before"
                            THEN strictlyBefore(joinedOf(data[1]).s[1], conditions[1].value)
                            ELSE strictlyAfter(joinedOf(data[1]).s[1], conditions[1].value)
                      THEN data ELSE <<>>)

\* The record joined on the day of the bound, at a later instant: neither
\* before nor after that day.
C26_Witness ==
    /\ data = <<mFull>>
    /\ conditions = <<Cond("joined", "after", DateRangeOf(T186, EmptyString))>>
    /\ filteredData = Ret(<<>>)
    /\ applyFilters(data, <<Cond("joined", "before", DateRangeOf(T186, EmptyString))>>,
                    fieldDefinitions) = Ret(<<>>)

(* ---------------------------- relative dates --------------------------- *)

DaysOf == [last7days |-> 7, last30days |-> 30, last90days |-> 90]

\* Strictly after now minus n days.
withinLast(d, n) == DateTick[d] > now - n * TicksPerDay

keptAtNow(operator) ==
    applyFilters(data, <<[conditions[1] EXCEPT !.operator = operator]>>, fieldDefinitions)

\* C27: evaluated at the time now, last7days, last30days and last90days
\* match a valid date iff it is strictly after now minus 7, 30 and 90 days,
\* whatever the condition value, and no invalid date; what last7days keeps
\* last30days keeps, and what last30days keeps last90days keeps.
C27_RelativeDates ==
    /\ conditions[1].fieldKey = "joined" =>
        \A operator \in DOMAIN DaysOf :
            /\ \A d \in DOMAIN DateTick :
                    matchDate(<<d>>, conditions[1].value, operator)
                        = Ret(withinLast(d, DaysOf[operator]))
            /\ matchDate(<<>>, conditions[1].value, operator) = Ret(FALSE)
    /\ (conditions[1].fieldKey = "joined" /\ conditions[1].operator \in DOMAIN DaysOf) =>
        /\ isValidFilter(conditions[1])
        /\ applyFilters(data, conditions, fieldDefinitions)
                = Ret(IF /\ joinedOf(data[1]).t = "string"
                         /\ joinedOf(data[1]).s \in {<<d>> : d \in DOMAIN DateTick}
                         /\ withinLast(joinedOf(data[1]).s[1], DaysOf[conditions[1].operator])
                      THEN data ELSE <<>>)
        /\ keptAtNow("last7days") = Ret(data) => keptAtNow("last30days") = Ret(data)
        /\ keptAtNow("last30days") = Ret(data) => keptAtNow("last90days") = Ret(data)

\* The clock has moved on: the record that joined exactly 7 days before now
\* is no longer within the last 7 days, and still within the last 30.
C27_Witness ==
    /\ now = Now0 + 1
    /\ data = <<mFull>>
    /\ conditions = <<Cond("joined", "last7days", Undefined)>>
    /\ filteredData = Ret(<<>>)
    /\ keptAtNow("last30days") = Ret(data)

(* ----------------------------- absent values --------------------------- *)

\* A segment of the path is not a key of the record, or the value before it
\* is not a mapping.
missingAt(record, path) ==
    IF path = "address.city"
    THEN \/ "address" \notin DOMAIN record.m
         \/ record.m.address.t # "object"
         \/ "city" \notin DOMAIN record.m.address.m
    ELSE path \notin DOMAIN record.m

\* The record that holds v at the path and nothing else.
holding(path, v) ==
    IF path = "address.city" THEN Obj([address |-> Obj([city |-> v])])
    ELSE Obj([k \in {path} |-> v])

absentCase ==
    /\ fieldMapHas(fieldDefinitions, conditions[1].fieldKey)
    /\ typeOfCondition \in {"text", "singleSelect", "multiSelect"}
    /\ missingAt(data[1], conditions[1].fieldKey)

\* The pass on the record that holds the empty string (the empty list on a
\* MultiSelect field) at the path.
asEmpty ==
    applyFilters(<<holding(conditions[1].fieldKey,
                           IF typeOfCondition = "multiSelect" THEN Arr(<<>>) ELSE EmptyString)>>,
                 conditions, fieldDefinitions)

atNow == applyFilters(data, conditions, fieldDefinitions)

\* C28: a record with a segment of the path missing is evaluated without
\* error, and kept or dropped exactly as a record that holds the empty
\* string (Text, SingleSelect) or the empty list (MultiSelect) at the path,
\* for every operator and every condition value.
C28_AbsentAsEmpty ==
    absentCase =>
        /\ ~atNow.threw
        /\ ~asEmpty.threw
        /\ keepsRecord(atNow) = keepsRecord(asEmpty)

\* Kept, dropped or failed exactly as the record with the empty value.
C28_SameOutcome ==
    absentCase =>
        /\ atNow.threw = asEmpty.threw
        /\ keepsRecord(atNow) = keepsRecord(asEmpty)

\* With a condition value of the field's shape there is no error.
shapedValue ==
    IF typeOfCondition = "multiSelect" THEN conditions[1].value.t = "array"
    ELSE conditions[1].value.t = "string"

C28_WithAValueOfTheFieldsShape == (absentCase /\ shapedValue) => C28_AbsentAsEmpty

(* ------------------------- the active-filter count --------------------- *)

\* c.fieldKey && c.operator && c.value !== "" && c.value !== undefined
countsAsActive(c) ==
    /\ c.fieldKey # ""
    /\ c.operator # ""
    /\ ~StrictEq(c.value, EmptyString)
    /\ c.value # Undefined

activeFilterCount(conds) == Cardinality({i \in 1..Len(conds) : countsAsActive(conds[i])})

validCount(conds) == Cardinality({i \in 1..Len(conds) : isValidFilter(conds[i])})

\* C29: the active-filter count of the application is the number of
\* conditions isValidFilter accepts.
C29_CountIsValidCount == activeFilterCount(conditions) = validCount(conditions)

\* Every condition isValidFilter accepts is counted.
C29_ValidAreCounted ==
    \A i \in 1..Len(conditions) : isValidFilter(conditions[i]) => countsAsActive(conditions[i])

(* ----------------------------- the connector --------------------------- *)

\* The chip FilterBuilder shows before row i, for i > 1.
connector(conds, i) ==
    IF i > 1 /\ conds[i - 1].fieldKey = conds[i].fieldKey /\ conds[i].fieldKey # ""
    THEN "OR" ELSE "AND"

\* applyFilters puts condition i into the group of an earlier condition:
\* both pass isValidFilter, the field has a definition and an earlier
\* condition has the same fieldKey.
combinedByOr(conds, i) ==
    /\ isValidFilter(conds[i])
    /\ fieldMapHas(fieldDefinitions, conds[i].fieldKey)
    /\ Len(groupedByField(validConditionsOf(SubSeq(conds, 1, i - 1)), conds[i].fieldKey)) > 0

\* C30: the connector before a condition is "OR" iff applyFilters combines
\* the condition by OR with an earlier condition of the list.
C30_ConnectorIsGrouping ==
    \A i \in 2..Len(conditions) :
        (connector(conditions, i) = "OR") <=> combinedByOr(conditions, i)

\* The same on lists all of whose conditions are valid and defined: a
\* condition grouped with one that is not its neighbour shows "AND".
C30_OnValidLists ==
    (\A i \in 1..Len(conditions) :
        isValidFilter(conditions[i]) /\ fieldMapHas(fieldDefinitions, conditions[i].fieldKey))
    => C30_ConnectorIsGrouping

\* "OR" between two valid neighbours is an OR of the engine.
C30_OrBetweenValidNeighbours ==
    \A i \in 2..Len(conditions) :
        ( /\ connector(conditions, i) = "OR"
          /\ isValidFilter(conditions[i - 1])
          /\ isValidFilter(conditions[i])
          /\ fieldMapHas(fieldDefinitions, conditions[i].fieldKey) )
        => combinedByOr(conditions, i)

====
